---------------------------- MODULE Spec2Model ----------------------------
(***************************************************************************)
(* A model of aerofiles.seeyou.Writer (src/aerofiles/seeyou/writer.py),    *)
(* the writer of SeeYou CUP files.                                         *)
(*                                                                         *)
(* Text is modelled character by character: a Python str is a sequence of  *)
(* one-character strings, so that escaping, joining and number formatting  *)
(* are computed as the code computes them.  The file object fp is the      *)
(* sequence of the CRLF-terminated lines written to it so far.             *)
(*                                                                         *)
(* Python values of the dynamically typed arguments are tagged records     *)
(* (PyNone, PyStr, PyInt, PyFloat, PyBool, PyTuple, PyTime, PyDatetime,    *)
(* PyTimedelta).  A call either returns or raises: Return / ReturnNone /   *)
(* Raise.                                                                  *)
(***************************************************************************)
EXTENDS Integers, Sequences, FiniteSets, TLC

VARIABLES
    fp,               \* self.fp: the lines written so far
    wps,              \* self.wps: set of the names of the written waypoints
    in_task_section,  \* self.in_task_section
    call,             \* the latest call made on the writer, with its arguments
    outcome,          \* how that call ended: ReturnNone or Raise(type, msg)
    task_called       \* history: write_task has been called on this writer

vars == <<fp, wps, in_task_section, call, outcome, task_called>>

----------------------------------------------------------------------------
(* Python values and call results *)

PyNone == [t |-> "None"]
PyStr(s) == [t |-> "str", s |-> s]
PyInt(i) == [t |-> "int", i |-> i]
\* a float with two decimals, held as its number of hundredths
PyFloat(h) == [t |-> "float", h |-> h]
PyBool(b) == [t |-> "bool", b |-> b]
PyTuple(m, u) == [t |-> "tuple", mag |-> m, unit |-> u]
PyTime(h, m, s) == [t |-> "time", hour |-> h, minute |-> m, second |-> s]
PyDatetime(d, tm) == [t |-> "datetime", day |-> d, time |-> tm]
\* a timedelta of whole seconds
PyTimedelta(secs) == [t |-> "timedelta", secs |-> secs]

Return(v) == [exc |-> FALSE, ret |-> v]
ReturnNone == [exc |-> FALSE]
Raise(type, msg) == [exc |-> TRUE, type |-> type, msg |-> msg]

----------------------------------------------------------------------------
(* Class constants *)

HEADER == <<"n", "a", "m", "e", ",", "c", "o", "d", "e", ",", "c", "o", "u", "n", "t", "r", "y", ",", "l", "a", "t", ",", "l", "o", "n", ",", "e", "l", "e", "v", ",", "s", "t", "y", "l", "e", ",", "r", "w", "d", "i", "r", ",", "r", "w", "l", "e", "n", ",", "f", "r", "e", "q", ",", "d", "e", "s", "c">>

DIVIDER == <<"-", "-", "-", "-", "-", "R", "e", "l", "a", "t", "e", "d", " ", "T", "a", "s", "k", "s", "-", "-", "-", "-", "-">>

\* WaypointStyles.NORMAL, the default of write_waypoint's style parameter
NORMAL == 1

----------------------------------------------------------------------------
(* Python's string operations *)

Abs(n) == IF n < 0 THEN -n ELSE n

Digits == <<"0", "1", "2", "3", "4", "5", "6", "7", "8", "9">>

RECURSIVE NatToStr(_)
NatToStr(n) ==
    IF n < 10 THEN <<Digits[n + 1]>>
    ELSE NatToStr(n \div 10) \o <<Digits[(n % 10) + 1]>>

RECURSIVE Zeros(_)
Zeros(k) == IF k <= 0 THEN <<>> ELSE <<"0">> \o Zeros(k - 1)

\* s padded on the left with zeros to at least width characters
ZeroPad(s, width) == Zeros(width - Len(s)) \o s

RECURSIVE Pow10(_)
Pow10(k) == IF k = 0 THEN 1 ELSE 10 * Pow10(k - 1)

\* a / b rounded to the nearest integer, ties to even (a >= 0, b > 0)
RoundDiv(a, b) ==
    LET q == a \div b
        r == a % b
    IN IF 2 * r > b \/ (2 * r = b /\ q % 2 = 1) THEN q + 1 ELSE q

\* '%0<width>d' % n
FormatD(n, width) ==
    IF n < 0 THEN <<"-">> \o ZeroPad(NatToStr(-n), width - 1)
    ELSE ZeroPad(NatToStr(n), width)

\* '%0<width>.<places>f' % (num / den)
FormatF(num, den, places, width) ==
    LET q == RoundDiv(Abs(num) * Pow10(places), den)
        body == NatToStr(q \div Pow10(places)) \o <<".">>
                \o ZeroPad(NatToStr(q % Pow10(places)), places)
    IN IF num < 0 THEN <<"-">> \o ZeroPad(body, width - 1)
       ELSE ZeroPad(body, width)

\* str(n) for an int
IntStr(n) == FormatD(n, 0)

\* s.replace(c, r) for a one-character c
RECURSIVE Replace(_, _, _)
Replace(s, c, r) ==
    IF s = <<>> THEN <<>>
    ELSE (IF Head(s) = c THEN r ELSE <<Head(s)>>) \o Replace(Tail(s), c, r)

\* sep.join(fields)
RECURSIVE Join(_, _)
Join(fields, sep) ==
    IF fields = <<>> THEN <<>>
    ELSE IF Len(fields) = 1 THEN fields[1]
    ELSE fields[1] \o sep \o Join(Tail(fields), sep)

----------------------------------------------------------------------------
(* The field formatting helpers *)

\* None passed where a str is expected.  It is held as a sequence, as every
\* str is, of one element that is no character, so that "not field" can
\* compare it with a str.
None == <<"None">>

\* escape putting the backslash before the quotes first and doubling the
\* backslashes afterwards
escape_quotes_first(field) ==
    IF field = <<>> \/ field = None THEN <<>>
    ELSE <<"\"">>
         \o Replace(Replace(field, "\"", <<"\\", "\"">>), "\\", <<"\\", "\\">>)
         \o <<"\"">>

\* Writer.escape
escape(field) ==
    IF field = <<>> \/ field = None THEN <<>>
    ELSE <<"\"">>
         \o Replace(Replace(field, "\\", <<"\\", "\\">>), "\"", <<"\\", "\"">>)
         \o <<"\"">>

\* A coordinate is held as its number of ten-thousandths of an arc minute.
MinuteScale == 10000
UnitsPerDegree == 60 * MinuteScale
Deg(d) == d * UnitsPerDegree

\* format_coordinate refusing the bounds themselves
format_coordinate_open(value, is_latitude) ==
    IF is_latitude /\ ~(Deg(-90) < value /\ value < Deg(90))
    THEN Raise("ValueError", "Invalid latitude")
    ELSE IF ~is_latitude /\ ~(Deg(-180) < value /\ value < Deg(180))
    THEN Raise("ValueError", "Invalid longitude")
    ELSE LET v == Abs(value)
             degrees == v \div UnitsPerDegree
         IN Return(FormatD(degrees, IF is_latitude THEN 2 ELSE 3)
                   \o FormatF(v - degrees * UnitsPerDegree, MinuteScale, 3, 6)
                   \o <<IF is_latitude
                        THEN (IF value < 0 THEN "S" ELSE "N")
                        ELSE (IF value < 0 THEN "W" ELSE "E")>>)

\* format_coordinate taking the hemisphere of zero for the negative one
format_coordinate_zero_negative(value, is_latitude) ==
    IF is_latitude /\ ~(Deg(-90) <= value /\ value <= Deg(90))
    THEN Raise("ValueError", "Invalid latitude")
    ELSE IF ~is_latitude /\ ~(Deg(-180) <= value /\ value <= Deg(180))
    THEN Raise("ValueError", "Invalid longitude")
    ELSE LET v == Abs(value)
             degrees == v \div UnitsPerDegree
         IN Return(FormatD(degrees, IF is_latitude THEN 2 ELSE 3)
                   \o FormatF(v - degrees * UnitsPerDegree, MinuteScale, 3, 6)
                   \o <<IF is_latitude
                        THEN (IF value <= 0 THEN "S" ELSE "N")
                        ELSE (IF value <= 0 THEN "W" ELSE "E")>>)

\* Writer.format_coordinate
format_coordinate(value, is_latitude) ==
    IF is_latitude /\ ~(Deg(-90) <= value /\ value <= Deg(90))
    THEN Raise("ValueError", "Invalid latitude")
    ELSE IF ~is_latitude /\ ~(Deg(-180) <= value /\ value <= Deg(180))
    THEN Raise("ValueError", "Invalid longitude")
    ELSE LET hemisphere == IF is_latitude
                           THEN (IF value < 0 THEN "S" ELSE "N")
                           ELSE (IF value < 0 THEN "W" ELSE "E")
             width == IF is_latitude THEN 2 ELSE 3
             v == Abs(value)
             degrees == v \div UnitsPerDegree
             \* (value - degrees) * 60, in units of 1 / MinuteScale
             minutes == v - degrees * UnitsPerDegree
         IN Return(FormatD(degrees, width)
                   \o FormatF(minutes, MinuteScale, 3, 6)
                   \o <<hemisphere>>)

\* Writer.format_latitude
format_latitude(value) == format_coordinate(value, TRUE)

\* Writer.format_longitude
format_longitude(value) == format_coordinate(value, FALSE)

\* format_distance taking a zero magnitude for an empty one
format_distance_zero_empty(distance) ==
    IF distance \in {PyNone, PyStr(<<>>), PyInt(0), PyFloat(0)} THEN <<>>
    ELSE LET unit == IF distance.t = "tuple" THEN distance.unit ELSE <<"m">>
             d == IF distance.t = "tuple" THEN distance.mag ELSE distance
         IN IF d.t = "float" THEN FormatF(d.h, 100, 1, 0) \o unit
            ELSE IF d.t = "int" THEN FormatD(d.i, 0) \o unit
            ELSE IF d.t = "bool" THEN FormatD(IF d.b THEN 1 ELSE 0, 0) \o unit
            ELSE d.s \o unit

\* Writer.format_distance
format_distance(distance) ==
    IF distance = PyNone \/ distance = PyStr(<<>>) THEN <<>>
    ELSE LET unit == IF distance.t = "tuple" THEN distance.unit ELSE <<"m">>
             d == IF distance.t = "tuple" THEN distance.mag ELSE distance
         IN IF d.t = "float" THEN FormatF(d.h, 100, 1, 0) \o unit
            ELSE IF d.t = "int" THEN FormatD(d.i, 0) \o unit
            ELSE IF d.t = "bool" THEN FormatD(IF d.b THEN 1 ELSE 0, 0) \o unit
            ELSE d.s \o unit

\* Writer.format_time
format_time(time) ==
    LET t1 == IF time.t = "datetime" THEN time.time ELSE time
    IN IF t1.t = "time"
       THEN FormatD(t1.hour, 2) \o <<":">> \o FormatD(t1.minute, 2)
            \o <<":">> \o FormatD(t1.second, 2)
       ELSE t1.s

\* format_timedelta wrapping the hours at a day
format_timedelta_of_day(timedelta) ==
    IF timedelta.t = "timedelta"
    THEN LET hours == (timedelta.secs \div 3600) % 24
             remainder == timedelta.secs % 3600
             minutes == remainder \div 60
             seconds == remainder % 60
         IN FormatD(hours, 2) \o <<":">> \o FormatD(minutes, 2)
            \o <<":">> \o FormatD(seconds, 2)
    ELSE timedelta.s

\* Writer.format_timedelta
format_timedelta(timedelta) ==
    IF timedelta.t = "timedelta"
    THEN LET hours == timedelta.secs \div 3600
             remainder == timedelta.secs % 3600
             minutes == remainder \div 60
             seconds == remainder % 60
         IN FormatD(hours, 2) \o <<":">> \o FormatD(minutes, 2)
            \o <<":">> \o FormatD(seconds, 2)
    ELSE timedelta.s

\* str(v) for the values passed as style and runway_direction
PyToStr(v) == IF v.t = "int" THEN IntStr(v.i) ELSE v.s

\* '%s' % v for a bool
BoolStr(v) == IF v.b THEN <<"T", "r", "u", "e">> ELSE <<"F", "a", "l", "s", "e">>

----------------------------------------------------------------------------
(* The file *)

\* Writer.write_line: fp after self.fp.write(line + '\r\n').  The file is
\* held as the sequence of its CRLF-terminated lines, each without its
\* terminator; no text the callers pass holds a CR or an LF.
write_line(f, line) == Append(f, line)

\* Writer.write_fields
write_fields(f, fields) == write_line(f, Join(fields, <<",">>))

----------------------------------------------------------------------------
(* The writer.  self is the record of the instance's fields; a method      *)
(* gives the instance after the call and how the call ended.               *)

Ended(self, result) == [self |-> self, outcome |-> result]

\* Writer.__init__
init ==
    [fp |-> write_line(<<>>, HEADER), wps |-> {}, in_task_section |-> FALSE]

\* waypoint_written without the declaration of the name
waypoint_written_undeclared(self, a) ==
    LET lat == format_latitude(a.latitude)
        lon == format_longitude(a.longitude)
    IN IF lat.exc THEN Ended(self, lat)
       ELSE IF lon.exc THEN Ended(self, lon)
       ELSE Ended([self EXCEPT
                     !.fp = write_fields(self.fp,
                                <<escape(a.name), escape(a.shortname),
                                  a.country, lat.ret, lon.ret,
                                  format_distance(a.elevation),
                                  PyToStr(a.style),
                                  PyToStr(a.runway_direction),
                                  format_distance(a.runway_length),
                                  escape(a.frequency),
                                  escape(a.description)>>)],
                  ReturnNone)

\* Writer.write_waypoint once its two checks have passed: the fields are
\* built in order (the latitude's error before the longitude's), the line is
\* written and the name declared
waypoint_written(self, a) ==
    LET lat == format_latitude(a.latitude)
        lon == format_longitude(a.longitude)
    IN IF lat.exc THEN Ended(self, lat)
       ELSE IF lon.exc THEN Ended(self, lon)
       ELSE Ended([self EXCEPT
                     !.fp = write_fields(self.fp,
                                <<escape(a.name), escape(a.shortname),
                                  a.country, lat.ret, lon.ret,
                                  format_distance(a.elevation),
                                  PyToStr(a.style),
                                  PyToStr(a.runway_direction),
                                  format_distance(a.runway_length),
                                  escape(a.frequency),
                                  escape(a.description)>>),
                     !.wps = self.wps \cup {a.name}],
                  ReturnNone)

\* write_waypoint without the check of the name
write_waypoint_unnamed(self, a) ==
    IF self.in_task_section
    THEN Ended(self, Raise("RuntimeError",
                           "Waypoints must be written before any tasks"))
    ELSE waypoint_written(self, a)

\* write_waypoint without the check of the section
write_waypoint_in_any_section(self, a) ==
    IF a.name = <<>>
    THEN Ended(self, Raise("ValueError", "Waypoint name must not be empty"))
    ELSE waypoint_written(self, a)

\* Writer.write_waypoint
write_waypoint(self, a) ==
    IF self.in_task_section
    THEN Ended(self, Raise("RuntimeError",
                           "Waypoints must be written before any tasks"))
    ELSE IF a.name = <<>>
    THEN Ended(self, Raise("ValueError", "Waypoint name must not be empty"))
    ELSE waypoint_written(self, a)

\* The loop of write_task without the lookup in self.wps
task_fields_unchecked(self, waypoints, fields) ==
    Return(fields \o [i \in DOMAIN waypoints |-> escape(waypoints[i])])

\* The loop of Writer.write_task over the waypoints left, fields being the
\* list built so far
RECURSIVE task_fields(_, _, _)
task_fields(self, waypoints, fields) ==
    IF waypoints = <<>> THEN Return(fields)
    ELSE IF Head(waypoints) \notin self.wps
    THEN Raise("ValueError", "Waypoint \"%s\" was not found")
    ELSE task_fields(self, Tail(waypoints),
                     Append(fields, escape(Head(waypoints))))

\* write_task writing the blank line and the divider at every call
write_task_dividing_always(self, description, waypoints) ==
    LET s1 == [self EXCEPT
                 !.fp = write_line(write_line(self.fp, <<>>), DIVIDER),
                 !.in_task_section = TRUE]
        r == task_fields(s1, waypoints, <<escape(description)>>)
    IN IF r.exc THEN Ended(s1, r)
       ELSE Ended([s1 EXCEPT !.fp = write_fields(s1.fp, r.ret)], ReturnNone)

\* write_task entering the task section only when the task is written
write_task_entering_late(self, description, waypoints) ==
    LET r == task_fields(self, waypoints, <<escape(description)>>)
        s1 == IF ~self.in_task_section
              THEN [self EXCEPT
                      !.fp = write_line(write_line(self.fp, <<>>), DIVIDER),
                      !.in_task_section = TRUE]
              ELSE self
    IN IF r.exc THEN Ended(self, r)
       ELSE Ended([s1 EXCEPT !.fp = write_fields(s1.fp, r.ret)], ReturnNone)

\* write_task forgetting the declared names when it raises
write_task_forgetting(self, description, waypoints) ==
    LET s1 == IF ~self.in_task_section
              THEN [self EXCEPT
                      !.fp = write_line(write_line(self.fp, <<>>), DIVIDER),
                      !.in_task_section = TRUE]
              ELSE self
        r == task_fields(s1, waypoints, <<escape(description)>>)
    IN IF r.exc THEN Ended([s1 EXCEPT !.wps = {}], r)
       ELSE Ended([s1 EXCEPT !.fp = write_fields(s1.fp, r.ret)], ReturnNone)

\* Writer.write_task
write_task(self, description, waypoints) ==
    LET s1 == IF ~self.in_task_section
              THEN [self EXCEPT
                      !.fp = write_line(write_line(self.fp, <<>>), DIVIDER),
                      !.in_task_section = TRUE]
              ELSE self
        r == task_fields(s1, waypoints, <<escape(description)>>)
    IN IF r.exc THEN Ended(s1, r)
       ELSE Ended([s1 EXCEPT !.fp = write_fields(s1.fp, r.ret)], ReturnNone)

\* kw is the dict of the keyword arguments: a sequence of <<key, value>>
\* pairs with distinct keys, in the order the caller gave them
Has(kw, key) == \E i \in DOMAIN kw : kw[i][1] = key
Get(kw, key) == kw[CHOOSE i \in DOMAIN kw : kw[i][1] = key][2]

\* One "if key in kw: fields.append(...)" of write_task_options; the field
\* is computed only when the key is there
Opt(kw, key, field) == IF Has(kw, key) THEN <<field>> ELSE <<>>

NoStart == <<"N", "o", "S", "t", "a", "r", "t", "=">>
TaskTime == <<"T", "a", "s", "k", "T", "i", "m", "e", "=">>
WpDis == <<"W", "p", "D", "i", "s", "=">>
NearDis == <<"N", "e", "a", "r", "D", "i", "s", "=">>
NearAlt == <<"N", "e", "a", "r", "A", "l", "t", "=">>
MinDis == <<"M", "i", "n", "D", "i", "s", "=">>
RandomOrder == <<"R", "a", "n", "d", "o", "m", "O", "r", "d", "e", "r", "=">>
MaxPts == <<"M", "a", "x", "P", "t", "s", "=">>
BeforePts == <<"B", "e", "f", "o", "r", "e", "P", "t", "s", "=">>
AfterPts == <<"A", "f", "t", "e", "r", "P", "t", "s", "=">>
Bonus == <<"B", "o", "n", "u", "s", "=">>
Options == <<"O", "p", "t", "i", "o", "n", "s">>

\* The fields list with the blocks of start_time and task_time exchanged
options_fields_exchanged(kw) ==
    <<Options>>
    \o Opt(kw, "task_time", TaskTime \o format_timedelta(Get(kw, "task_time")))
    \o Opt(kw, "start_time", NoStart \o format_time(Get(kw, "start_time")))
    \o Opt(kw, "waypoint_distance", WpDis \o BoolStr(Get(kw, "waypoint_distance")))
    \o Opt(kw, "distance_tolerance", NearDis \o format_distance(Get(kw, "distance_tolerance")))
    \o Opt(kw, "altitude_tolerance", NearAlt \o format_distance(Get(kw, "altitude_tolerance")))
    \o Opt(kw, "min_distance", MinDis \o BoolStr(Get(kw, "min_distance")))
    \o Opt(kw, "random_order", RandomOrder \o BoolStr(Get(kw, "random_order")))
    \o Opt(kw, "max_points", MaxPts \o FormatD(Get(kw, "max_points").i, 0))
    \o Opt(kw, "before_points", BeforePts \o FormatD(Get(kw, "before_points").i, 0))
    \o Opt(kw, "after_points", AfterPts \o FormatD(Get(kw, "after_points").i, 0))
    \o Opt(kw, "bonus", Bonus \o FormatD(Get(kw, "bonus").i, 0))

\* The fields list of Writer.write_task_options
options_fields(kw) ==
    <<Options>>
    \o Opt(kw, "start_time", NoStart \o format_time(Get(kw, "start_time")))
    \o Opt(kw, "task_time", TaskTime \o format_timedelta(Get(kw, "task_time")))
    \o Opt(kw, "waypoint_distance", WpDis \o BoolStr(Get(kw, "waypoint_distance")))
    \o Opt(kw, "distance_tolerance", NearDis \o format_distance(Get(kw, "distance_tolerance")))
    \o Opt(kw, "altitude_tolerance", NearAlt \o format_distance(Get(kw, "altitude_tolerance")))
    \o Opt(kw, "min_distance", MinDis \o BoolStr(Get(kw, "min_distance")))
    \o Opt(kw, "random_order", RandomOrder \o BoolStr(Get(kw, "random_order")))
    \o Opt(kw, "max_points", MaxPts \o FormatD(Get(kw, "max_points").i, 0))
    \o Opt(kw, "before_points", BeforePts \o FormatD(Get(kw, "before_points").i, 0))
    \o Opt(kw, "after_points", AfterPts \o FormatD(Get(kw, "after_points").i, 0))
    \o Opt(kw, "bonus", Bonus \o FormatD(Get(kw, "bonus").i, 0))

\* write_task_options without the check of the section
write_task_options_unguarded(self, kw) ==
    Ended([self EXCEPT !.fp = write_fields(self.fp, options_fields(kw))],
          ReturnNone)

\* write_task_options closing the task section behind its line
write_task_options_leaving_section(self, kw) ==
    IF ~self.in_task_section
    THEN Ended(self, Raise("RuntimeError",
                           "Task options have to be written in task section"))
    ELSE Ended([self EXCEPT !.fp = write_fields(self.fp, options_fields(kw)),
                            !.in_task_section = FALSE],
               ReturnNone)

\* Writer.write_task_options
write_task_options(self, kw) ==
    IF ~self.in_task_section
    THEN Ended(self, Raise("RuntimeError",
                           "Task options have to be written in task section"))
    ELSE Ended([self EXCEPT !.fp = write_fields(self.fp, options_fields(kw))],
               ReturnNone)

----------------------------------------------------------------------------
(* The callers' inputs *)

\* The longest file the model writes, in lines
MaxLines == 6

\* The most keyword arguments of one write_task_options call
MaxKw == 3

NameA == <<"A">>
NameB == <<"B", "\"">>

\* 51 deg 7.345 min north, 6 deg 24.765 min east
ExampleLat == Deg(51) + 73450
ExampleLon == Deg(6) + 247650

\* The arguments of a write_waypoint call with every optional argument
\* left at its default
Plain(name, latitude, longitude) ==
    [name |-> name,
     shortname |-> <<"M", "e", "i", "e", "r">>,
     country |-> <<"D", "E">>,
     latitude |-> latitude,
     longitude |-> longitude,
     elevation |-> PyStr(<<>>),
     style |-> PyInt(NORMAL),
     runway_direction |-> PyStr(<<>>),
     runway_length |-> PyStr(<<>>),
     frequency |-> <<>>,
     description |-> <<>>]

\* The arguments of a write_waypoint call for an airfield, with every
\* optional argument given
Airfield(name, latitude, longitude) ==
    [name |-> name,
     shortname |-> <<>>,
     country |-> <<"D", "E">>,
     latitude |-> latitude,
     longitude |-> longitude,
     elevation |-> PyFloat(14625),
     style |-> PyInt(5),
     runway_direction |-> PyInt(90),
     runway_length |-> PyTuple(PyInt(1), <<"k", "m">>),
     frequency |-> <<"1", "2", "3", ".", "5">>,
     description |-> <<"a", "\"", "b", "\\", "c">>]

\* The write_waypoint calls: coordinates inside, on and just outside the
\* bounds, and an empty name
WaypointArgs ==
    { Plain(NameA, ExampleLat, ExampleLon),
      Airfield(NameB, Deg(-90), Deg(180)),
      Plain(NameA, Deg(90), Deg(-180)),
      Plain(<<>>, ExampleLat, ExampleLon),
      Plain(<<>>, Deg(91), Deg(181)),
      Plain(NameA, Deg(90) + 1, ExampleLon),
      Airfield(NameB, Deg(-90) - 1, ExampleLon),
      Plain(NameA, ExampleLat, Deg(180) + 1),
      Airfield(NameB, ExampleLat, Deg(-180) - 1),
      Plain(NameA, Deg(91), Deg(181)) }

\* The write_task calls: <<description, waypoints>>
TaskArgs ==
    { << <<>>, <<>> >>,
      << <<"T">>, <<>> >>,
      << <<"T">>, <<NameA>> >>,
      << <<"T">>, <<NameB, NameA>> >>,
      << <<>>, <<NameA, NameB, NameA>> >> }

\* The keyword arguments of the write_task_options calls of Spec
KwArgs ==
    { <<>>,
      << <<"altitude_tolerance", PyFloat(30000)>>,
         <<"distance_tolerance", PyTuple(PyFloat(70), <<"k", "m">>)>>,
         <<"waypoint_distance", PyBool(FALSE)>>,
         <<"task_time", PyTimedelta(6312)>>,
         <<"start_time", PyTime(12, 34, 56)>> >>,
      << <<"bonus", PyInt(200)>>,
         <<"colour", PyStr(<<"r", "e", "d">>)>>,
         <<"start_time", PyStr(<<"1", "2", ":", "3", "4", ":", "5", "6">>)>> >> }

\* The keys of the write_task_options calls of SpecOptions: the eleven the
\* method knows, in no particular order, and one it does not know
KwKeys ==
    { "bonus", "after_points", "before_points", "max_points", "random_order",
      "min_distance", "altitude_tolerance", "distance_tolerance",
      "waypoint_distance", "task_time", "start_time", "colour" }

\* The value passed for each key
KwValue(key) ==
    CASE key = "start_time" -> PyTime(12, 34, 56)
      [] key = "task_time" -> PyTimedelta(6312)
      [] key = "waypoint_distance" -> PyBool(FALSE)
      [] key = "distance_tolerance" -> PyTuple(PyFloat(70), <<"k", "m">>)
      [] key = "altitude_tolerance" -> PyFloat(30000)
      [] key = "min_distance" -> PyBool(TRUE)
      [] key = "random_order" -> PyBool(FALSE)
      [] key = "max_points" -> PyInt(13)
      [] key = "before_points" -> PyInt(2)
      [] key = "after_points" -> PyInt(1)
      [] key = "bonus" -> PyInt(200)
      [] OTHER -> PyStr(<<"r", "e", "d">>)

\* Every dict of at most MaxKw of the keys, in every order of supply
OptionsArgs ==
    UNION { { [i \in 1..n |-> <<keys[i], KwValue(keys[i])>>] :
                keys \in { k \in [1..n -> KwKeys] :
                             \A i, j \in 1..n : i # j => k[i] # k[j] } } :
            n \in 0..MaxKw }

----------------------------------------------------------------------------
(* The state machine: one action per method call *)

Self == [fp |-> fp, wps |-> wps, in_task_section |-> in_task_section]

\* The writer's fields after a call that ended as r
Becomes(r) ==
    /\ Len(r.self.fp) <= MaxLines
    /\ fp' = r.self.fp
    /\ wps' = r.self.wps
    /\ in_task_section' = r.self.in_task_section
    /\ outcome' = r.outcome

Init ==
    /\ fp = init.fp
    /\ wps = init.wps
    /\ in_task_section = init.in_task_section
    /\ call = [op |-> "__init__"]
    /\ outcome = ReturnNone
    /\ task_called = FALSE

WriteWaypoint ==
    \E a \in WaypointArgs :
        /\ call' = [op |-> "write_waypoint", a |-> a]
        /\ \E r \in {write_waypoint(Self, a)} : Becomes(r)
        /\ UNCHANGED task_called

WriteTask ==
    \E t \in TaskArgs :
        /\ call' = [op |-> "write_task", description |-> t[1],
                    waypoints |-> t[2]]
        /\ \E r \in {write_task(Self, t[1], t[2])} : Becomes(r)
        /\ task_called' = TRUE

CallTaskOptions(kw) ==
    /\ call' = [op |-> "write_task_options", kw |-> kw]
    /\ \E r \in {write_task_options(Self, kw)} : Becomes(r)
    /\ UNCHANGED task_called

WriteTaskOptions == \E kw \in KwArgs : CallTaskOptions(kw)

Next == WriteWaypoint \/ WriteTask \/ WriteTaskOptions

Spec == Init /\ [][Next]_vars

----------------------------------------------------------------------------
(* A reader's view of the file, used to state the properties *)

\* The index of the comma that ends the field read from the i-th character
\* of a line on (one past the line's end when it is the last field): a comma
\* inside quotes ends nothing, and a backslash inside quotes takes the next
\* character with it
RECURSIVE FieldEnd(_, _, _)
FieldEnd(line, i, quoted) ==
    IF i > Len(line) THEN i
    ELSE IF quoted /\ line[i] = "\\" /\ i < Len(line)
    THEN FieldEnd(line, i + 2, quoted)
    ELSE IF line[i] = "\"" THEN FieldEnd(line, i + 1, ~quoted)
    ELSE IF line[i] = "," /\ ~quoted THEN i
    ELSE FieldEnd(line, i + 1, quoted)

\* The fields of a line from its i-th character on
RECURSIVE FieldsFrom(_, _)
FieldsFrom(line, i) ==
    LET e == FieldEnd(line, i, FALSE)
    IN <<SubSeq(line, i, e - 1)>>
       \o (IF e > Len(line) THEN <<>> ELSE FieldsFrom(line, e + 1))

Fields(line) == FieldsFrom(line, 1)

RECURSIVE Unbackslash(_)
Unbackslash(s) ==
    IF s = <<>> THEN <<>>
    ELSE IF Head(s) = "\\" /\ Len(s) >= 2
    THEN <<s[2]>> \o Unbackslash(SubSeq(s, 3, Len(s)))
    ELSE <<Head(s)>> \o Unbackslash(Tail(s))

IsQuoted(field) ==
    Len(field) >= 2 /\ field[1] = "\"" /\ field[Len(field)] = "\""

\* The text of a field: the outer quotes stripped, backslash-X read as X
Unescape(field) ==
    IF IsQuoted(field) THEN Unbackslash(SubSeq(field, 2, Len(field) - 1))
    ELSE field

Texts(line) == [i \in DOMAIN Fields(line) |-> Unescape(Fields(line)[i])]

Last(seq) == seq[Len(seq)]

\* f2 is f1 with the lines added appended
Appended(f1, f2, added) == f2 = f1 \o added

\* A line of quoted or empty fields only: what write_task writes
IsTaskLine(line) ==
    \A i \in DOMAIN Fields(line) :
        Fields(line)[i] = <<>> \/ IsQuoted(Fields(line)[i])

\* A line whose first field is the bare word Options
IsOptionsLine(line) == Fields(line)[1] = Options

\* An 11-field line with a quoted name and bare coordinates ending in a
\* hemisphere letter: what write_waypoint writes
IsWaypointLine(line) ==
    LET f == Fields(line)
    IN /\ Len(f) = 11
       /\ IsQuoted(f[1])
       /\ Unescape(f[1]) # <<>>
       /\ f[4] # <<>> /\ Last(f[4]) \in {"N", "S"}
       /\ f[5] # <<>> /\ Last(f[5]) \in {"E", "W"}

\* The index of the divider line, 0 when the file has none
DividerAt(f) ==
    IF \E i \in DOMAIN f : f[i] = DIVIDER
    THEN CHOOSE i \in DOMAIN f : f[i] = DIVIDER /\ \A j \in 1..(i - 1) : f[j] # DIVIDER
    ELSE 0

InvalidState(msg) == Raise("RuntimeError", msg)
WaypointsBeforeTasks == InvalidState("Waypoints must be written before any tasks")
OptionsInTaskSection == InvalidState("Task options have to be written in task section")
EmptyName == Raise("ValueError", "Waypoint name must not be empty")
NotFound == Raise("ValueError", "Waypoint \"%s\" was not found")

----------------------------------------------------------------------------
(* The calls of write_task_options, one by one *)

\* A caller that makes one write_task call and, before it or after it, one
\* write_task_options call with any of OptionsArgs
WriteFirstTask == ~task_called /\ WriteTask

WriteTaskOptionsOnce ==
    /\ call.op # "write_task_options"
    /\ \A i \in DOMAIN fp : ~IsOptionsLine(fp[i])
    /\ \E kw \in OptionsArgs : CallTaskOptions(kw)

NextOptions == WriteFirstTask \/ WriteTaskOptionsOnce

SpecOptions == Init /\ [][NextOptions]_vars

----------------------------------------------------------------------------
(* The formatting helpers called on their own, one call per behaviour *)

\* The longest text passed to escape, in characters
MaxText == 4

\* The most degrees of a coordinate passed to format_coordinate
MaxDegree == 181

\* The most hours of a duration passed to format_timedelta
MaxHours == 100

\* The largest magnitude of a distance passed to format_distance
MaxMagnitude == 12

\* The characters of the texts: a letter, the separator of the fields and
\* the two characters escape treats
TextChars == {"a", ",", "\\", "\""}

Texts_(n) == UNION {[1..k -> TextChars] : k \in 0..n}

\* The arguments of escape: every text of at most MaxText characters, and
\* None
EscapeArgs == Texts_(MaxText) \cup {None}

\* The part of a coordinate beyond its whole degrees, in units of
\* 1 / MinuteScale minutes: about zero, the two examples, about the half and
\* just below the full degree.  None is half way between two thousandths of
\* a minute, where the binary value of the float decides the rounding.
MinuteParts ==
    {0, 1, 4, 6, 73450, 247650,
     30 * MinuteScale - 6, 30 * MinuteScale + 4,
     60 * MinuteScale - 6, 60 * MinuteScale - 4, 60 * MinuteScale - 1}

\* The arguments of format_coordinate: <<value, is_latitude>>, the values
\* of both signs up to MaxDegree degrees
CoordinateArgs ==
    { <<sign * (Deg(d) + m), is_latitude>> :
        sign \in {-1, 1}, d \in 0..MaxDegree, m \in MinuteParts,
        is_latitude \in BOOLEAN }

\* The arguments of format_timedelta: durations of whole seconds up to
\* MaxHours hours and more, and durations given as a str
TimedeltaArgs ==
    { PyTimedelta(h * 3600 + m * 60 + sec) :
        h \in 0..MaxHours, m \in {0, 1, 45, 59}, sec \in {0, 1, 12, 59} }
    \cup { PyStr(<<"0", "1", ":", "4", "5", ":", "1", "2">>),
           PyStr(<<"9", "0", " ", "m", "i", "n">>),
           PyStr(<<>>) }

\* The magnitudes of the distances: ints, floats of a whole number of
\* quarters or of tenths (held in hundredths), bools and strs
Magnitudes ==
    { PyInt(i) : i \in (-MaxMagnitude)..MaxMagnitude }
    \cup { PyFloat(25 * q) : q \in (-MaxMagnitude)..MaxMagnitude }
    \cup { PyFloat(10 * d) : d \in (-MaxMagnitude)..MaxMagnitude }
    \cup { PyFloat(14625), PyFloat(30000) }
    \cup { PyBool(FALSE), PyBool(TRUE) }
    \cup { PyStr(<<>>), PyStr(<<"1", ".", "5", "0">>), PyStr(<<"F", "L", "6", "5">>) }

Units == { <<"m">>, <<"f", "t">>, <<"k", "m">>, <<"n", "m">> }

\* The arguments of format_distance: None, a bare magnitude or a
\* (magnitude, unit) tuple
DistanceArgs ==
    {PyNone} \cup Magnitudes
    \cup { PyTuple(m, u) : m \in Magnitudes, u \in Units }

\* The outcome of a call that has not been made yet
Pending == [exc |-> FALSE, pending |-> TRUE]

Called(op, arg) ==
    /\ fp = init.fp
    /\ wps = init.wps
    /\ in_task_section = init.in_task_section
    /\ task_called = FALSE
    /\ call = [op |-> op, arg |-> arg]
    /\ outcome = Pending

\* A writer has been made and one of its helpers is about to be called
InitFormat ==
    \/ \E field \in EscapeArgs : Called("escape", field)
    \/ \E c \in CoordinateArgs : Called("format_coordinate", c)
    \/ \E timedelta \in TimedeltaArgs : Called("format_timedelta", timedelta)
    \/ \E distance \in DistanceArgs : Called("format_distance", distance)

Returns(op, result) ==
    /\ call.op = op
    /\ outcome = Pending
    /\ outcome' = result
    /\ UNCHANGED <<fp, wps, in_task_section, call, task_called>>

Escape == Returns("escape", Return(escape(call.arg)))

FormatCoordinate ==
    Returns("format_coordinate", format_coordinate(call.arg[1], call.arg[2]))

FormatTimedelta ==
    Returns("format_timedelta", Return(format_timedelta(call.arg)))

FormatDistance ==
    Returns("format_distance", Return(format_distance(call.arg)))

NextFormat == Escape \/ FormatCoordinate \/ FormatTimedelta \/ FormatDistance

SpecFormat == InitFormat /\ [][NextFormat]_vars

\* The call op has been made with arg and has ended
Done(op) == call.op = op /\ outcome # Pending

----------------------------------------------------------------------------
(* The properties *)

\* C1: a write_waypoint call made after any write_task call, whether that
\* call returned or raised, raises the invalid-state error, writes no line
\* and leaves wps as it was.
C1_WaypointAfterTaskRaises ==
    [][(task_called /\ call'.op = "write_waypoint")
        => /\ outcome' = WaypointsBeforeTasks
           /\ fp' = fp
           /\ wps' = wps]_vars

\* C1's case: the only write_task call so far raised (the file ends with
\* the divider it wrote), and the write_waypoint call after it has raised.
C1_Witness ==
    /\ call.op = "write_waypoint"
    /\ call.a.name # <<>>
    /\ outcome = WaypointsBeforeTasks
    /\ Last(fp) = DIVIDER
    /\ wps = {}

\* C2: a call that raises leaves wps and in_task_section as they were.
C2_FailureKeepsState ==
    [][outcome'.exc
        => /\ wps' = wps
           /\ in_task_section' = in_task_section]_vars

\* C3: a write_task call that raises the referential error leaves the file
\* as it was, first call or not.
C3_FailedTaskWritesNothing ==
    [][(call'.op = "write_task" /\ outcome' = NotFound) => fp' = fp]_vars

\* C4: write_task raises the referential error exactly when one of the
\* names is not in wps at the call; a call that returns has written the line
\* of the description and the names in the order given, repeats kept; and in
\* every state each name on a task line of the file is in wps and is the
\* name of a waypoint line earlier in the file.
C4_CallChecked ==
    call'.op = "write_task"
        => /\ outcome' = NotFound
                <=> \E i \in DOMAIN call'.waypoints : call'.waypoints[i] \notin wps
           /\ outcome' # NotFound
                => /\ outcome' = ReturnNone
                   /\ Texts(Last(fp')) = <<call'.description>> \o call'.waypoints

C4_FileIntegrity ==
    \A i \in DOMAIN fp :
        (DividerAt(fp) # 0 /\ i > DividerAt(fp) /\ ~IsOptionsLine(fp[i]))
            => \A k \in 2..Len(Texts(fp[i])) :
                   /\ Texts(fp[i])[k] \in wps
                   /\ \E j \in 2..(i - 1) :
                          /\ IsWaypointLine(fp[j])
                          /\ Texts(fp[j])[1] = Texts(fp[i])[k]

C4_ReferentialIntegrity == []C4_FileIntegrity /\ [][C4_CallChecked]_vars

\* C4's case: a task naming both waypoints, one of them twice, is on file.
C4_Witness ==
    /\ call.op = "write_task"
    /\ call.waypoints = <<NameA, NameB, NameA>>
    /\ outcome = ReturnNone
    /\ Texts(Last(fp)) = <<<<>>, NameA, NameB, NameA>>

\* C5: write_task_options raises the invalid-state error and writes nothing
\* when in_task_section is false, which is exactly when no write_task call was
\* made before; when it is true the call returns and has added one line.
C5_Call ==
    call'.op = "write_task_options"
        => IF ~in_task_section
           THEN outcome' = OptionsInTaskSection /\ fp' = fp
           ELSE /\ outcome' = ReturnNone
                /\ Len(fp') = Len(fp) + 1
                /\ SubSeq(fp', 1, Len(fp)) = fp

C5_OptionsNeedTaskSection ==
    [](in_task_section <=> task_called) /\ [][C5_Call]_vars

\* C5's case: an options call raised before any write_task call, and the
\* file holds the header only.
C5_Witness ==
    /\ call.op = "write_task_options"
    /\ outcome = OptionsInTaskSection
    /\ ~task_called
    /\ fp = <<HEADER>>

\* The line is the task line of a description and a list of names
IsTaskLineOf(line, description, waypoints) ==
    IsTaskLine(line) /\ Texts(line) = <<description>> \o waypoints

\* What the first write_task call writes before the task line
Bootstrap == IF task_called THEN <<>> ELSE <<<<>>, DIVIDER>>

\* C6, as claimed: the first write_task call adds the blank line, the divider
\* and the task line, every later call adds its task line only; the divider is
\* on file at most once, with a blank line before it.
C6_DividerOnce ==
    /\ Cardinality({i \in DOMAIN fp : fp[i] = DIVIDER}) <= 1
    /\ \A i \in DOMAIN fp : fp[i] = DIVIDER => (i > 1 /\ fp[i - 1] = <<>>)

C6_CallAsClaimed ==
    call'.op = "write_task"
        => /\ Len(fp') = Len(fp) + Len(Bootstrap) + 1
           /\ SubSeq(fp', 1, Len(fp') - 1) = fp \o Bootstrap
           /\ IsTaskLineOf(Last(fp'), call'.description, call'.waypoints)

C6_Call ==
    call'.op = "write_task"
        => IF outcome' = ReturnNone
           THEN /\ Len(fp') = Len(fp) + Len(Bootstrap) + 1
                /\ SubSeq(fp', 1, Len(fp') - 1) = fp \o Bootstrap
                /\ IsTaskLineOf(Last(fp'), call'.description, call'.waypoints)
           ELSE fp' = fp \o Bootstrap

C7_AsClaimed ==
    [][(call'.op = "write_waypoint" /\ call'.a.name = <<>>)
        => /\ outcome' = EmptyName
           /\ fp' = fp
           /\ wps' = wps
           /\ in_task_section' = in_task_section]_vars

\* C7, amended: write_waypoint with an empty name raises (the validation
\* error in the waypoint section, the invalid-state error in the task
\* section), writes no line and leaves wps and in_task_section as they were.
C7_EmptyNameRaises ==
    [][(call'.op = "write_waypoint" /\ call'.a.name = <<>>)
        => /\ outcome' = (IF in_task_section THEN WaypointsBeforeTasks
                          ELSE EmptyName)
           /\ fp' = fp
           /\ wps' = wps
           /\ in_task_section' = in_task_section]_vars

\* C7's case: a call with an empty name raised the validation error on a
\* writer that holds waypoints.
C7_Witness ==
    /\ call.op = "write_waypoint"
    /\ call.a.name = <<>>
    /\ outcome = EmptyName
    /\ wps = {NameA, NameB}
    /\ Len(fp) = 3

LatitudeOut(a) == a.latitude < Deg(-90) \/ a.latitude > Deg(90)
LongitudeOut(a) == a.longitude < Deg(-180) \/ a.longitude > Deg(180)
InvalidLatitude == Raise("ValueError", "Invalid latitude")
InvalidLongitude == Raise("ValueError", "Invalid longitude")

\* The call wrote one line and declared the name
WaypointWritten(a) ==
    /\ outcome' = ReturnNone
    /\ Len(fp') = Len(fp) + 1
    /\ SubSeq(fp', 1, Len(fp)) = fp
    /\ IsWaypointLine(Last(fp'))
    /\ Texts(Last(fp'))[1] = a.name
    /\ wps' = wps \cup {a.name}

\* C8, as claimed: write_waypoint with a coordinate out of range raises the
\* formatter's range error, writes no line and does not declare the name;
\* with both in range (bounds included), a name and the waypoint section it
\* returns.
C8_AsClaimed ==
    [][call'.op = "write_waypoint"
        => IF LatitudeOut(call'.a) \/ LongitudeOut(call'.a)
           THEN /\ outcome' \in {InvalidLatitude, InvalidLongitude}
                /\ fp' = fp
                /\ wps' = wps
           ELSE (call'.a.name # <<>> /\ ~in_task_section)
                    => WaypointWritten(call'.a)]_vars

\* C8, amended: write_waypoint with a coordinate out of range raises, writes
\* no line and leaves wps as it was; in the waypoint section and with a name,
\* what it raises is the range error of the coordinate formatter (the
\* latitude's first).  With both in range (bounds included), a name and the
\* waypoint section it returns.
C8_Call ==
    call'.op = "write_waypoint"
        => IF LatitudeOut(call'.a) \/ LongitudeOut(call'.a)
           THEN /\ outcome'.exc
                /\ fp' = fp
                /\ wps' = wps
                /\ (call'.a.name # <<>> /\ ~in_task_section)
                     => /\ outcome' = (IF LatitudeOut(call'.a)
                                       THEN InvalidLatitude
                                       ELSE InvalidLongitude)
                        /\ outcome' \in {format_latitude(call'.a.latitude),
                                         format_longitude(call'.a.longitude)}
           ELSE (call'.a.name # <<>> /\ ~in_task_section)
                    => WaypointWritten(call'.a)

C8_RangeChecked == [][C8_Call]_vars

\* C8's case: a waypoint on the bounds of both ranges is on file, and the
\* call after it, one unit beyond the longitude's bound, raised.
C8_Witness ==
    /\ call.op = "write_waypoint"
    /\ call.a.longitude = Deg(-180) - 1
    /\ outcome = InvalidLongitude
    /\ Len(fp) = 2
    /\ Texts(fp[2])[1] = NameA
    /\ wps = {NameA}
    /\ \E i \in DOMAIN fp[2] : fp[2][i] = "W"

\* C9: the file is the header, then waypoint lines only, then, if at all, one
\* blank line and the divider followed by task lines and options lines only.
C9_Sections ==
    LET d == DividerAt(fp)
        lastWaypoint == IF d = 0 THEN Len(fp) ELSE d - 2
    IN /\ fp[1] = HEADER
       /\ \A i \in 2..Len(fp) : fp[i] # HEADER
       /\ d # 0 => (d >= 3 /\ fp[d - 1] = <<>>)
       /\ \A i \in 2..lastWaypoint :
              /\ IsWaypointLine(fp[i])
              /\ ~IsTaskLine(fp[i])
              /\ ~IsOptionsLine(fp[i])
       /\ d # 0 => \A i \in (d + 1)..Len(fp) :
              /\ IsTaskLine(fp[i]) \/ IsOptionsLine(fp[i])
              /\ ~IsWaypointLine(fp[i])
              /\ fp[i] # DIVIDER

\* C9's case: a file of all the sections: a waypoint, the divider, a task
\* naming the waypoint and an options line.
C9_Witness ==
    /\ Len(fp) = 6
    /\ DividerAt(fp) = 4
    /\ IsWaypointLine(fp[2])
    /\ IsTaskLine(fp[5]) /\ Len(Fields(fp[5])) = 2
    /\ IsOptionsLine(fp[6]) /\ Len(Fields(fp[6])) > 1

\* The table of the options: key, token and formatting, in the order of the
\* fields
OptionTable ==
    << <<"start_time", NoStart, "time">>,
       <<"task_time", TaskTime, "timedelta">>,
       <<"waypoint_distance", WpDis, "bool">>,
       <<"distance_tolerance", NearDis, "distance">>,
       <<"altitude_tolerance", NearAlt, "distance">>,
       <<"min_distance", MinDis, "bool">>,
       <<"random_order", RandomOrder, "bool">>,
       <<"max_points", MaxPts, "int">>,
       <<"before_points", BeforePts, "int">>,
       <<"after_points", AfterPts, "int">>,
       <<"bonus", Bonus, "int">> >>

Rendered(kind, v) ==
    CASE kind = "time" -> format_time(v)
      [] kind = "timedelta" -> format_timedelta(v)
      [] kind = "bool" -> BoolStr(v)
      [] kind = "distance" -> format_distance(v)
      [] kind = "int" -> IntStr(v.i)

\* A dict as the set of its <<key, value>> pairs, the order of supply forgotten
Pairs(kw) == {kw[i] : i \in DOMAIN kw}
Supplied(kw) == {pair[1] : pair \in Pairs(kw)}
ValueOf(kw, key) == (CHOOSE pair \in Pairs(kw) : pair[1] = key)[2]

\* The Key=Value fields of the rows n, n + 1, ... of the table the dict has
RECURSIVE TableFields(_, _)
TableFields(kw, n) ==
    IF n > Len(OptionTable) THEN <<>>
    ELSE (IF OptionTable[n][1] \in Supplied(kw)
          THEN <<OptionTable[n][2]
                 \o Rendered(OptionTable[n][3], ValueOf(kw, OptionTable[n][1]))>>
          ELSE <<>>)
         \o TableFields(kw, n + 1)

\* C10: a write_task_options call that returns has written one line: the
\* field Options, then one Key=Value field for each key of the table that was
\* supplied, in the order of the table whatever the order of supply; a key
\* that is absent gives no field and a key the table lacks is ignored.
C10_Call ==
    (call'.op = "write_task_options" /\ outcome' = ReturnNone)
        => /\ Len(fp') = Len(fp) + 1
           /\ SubSeq(fp', 1, Len(fp)) = fp
           /\ Fields(Last(fp')) = <<Options>> \o TableFields(call'.kw, 1)
           /\ Len(Fields(Last(fp')))
                = 1 + Cardinality({n \in DOMAIN OptionTable :
                                     OptionTable[n][1] \in Supplied(call'.kw)})

C10_OptionsInTableOrder == [][C10_Call]_vars

\* C10's case: the keys were supplied against the order of the table, with
\* an unknown key between them, and the line has them in the table's order.
C10_Witness ==
    /\ call.op = "write_task_options"
    /\ outcome = ReturnNone
    /\ Len(call.kw) = 3
    /\ call.kw[1][1] = "task_time"
    /\ call.kw[2][1] = "colour"
    /\ call.kw[3][1] = "start_time"
    /\ Fields(Last(fp)) = <<Options,
                            NoStart \o <<"1", "2", ":", "3", "4", ":", "5", "6">>,
                            TaskTime \o <<"0", "1", ":", "4", "5", ":", "1", "2">> >>

----------------------------------------------------------------------------
(* The properties of the formatting helpers *)

IsDigits(s) == s # <<>> /\ \A i \in DOMAIN s : \E d \in DOMAIN Digits : Digits[d] = s[i]

DigitValue(c) == (CHOOSE d \in DOMAIN Digits : Digits[d] = c) - 1

\* The number a string of digits denotes
RECURSIVE StrToNat(_)
StrToNat(s) ==
    IF s = <<>> THEN 0
    ELSE 10 * StrToNat(SubSeq(s, 1, Len(s) - 1)) + DigitValue(Last(s))

InRange(value, is_latitude) ==
    IF is_latitude THEN Deg(-90) <= value /\ value <= Deg(90)
    ELSE Deg(-180) <= value /\ value <= Deg(180)

\* What one thousandth of a minute is in the units of the coordinates
Thousandth == MinuteScale \div 1000

\* The minutes a formatted coordinate shows, in thousandths; w is the
\* number of its degree digits
MinutesShown(s, w) ==
    1000 * StrToNat(SubSeq(s, w + 1, w + 2)) + StrToNat(SubSeq(s, w + 4, w + 6))

\* s is the degree digits, MM.MMM and the hemisphere letter of value
IsCoordinateOf(s, value, is_latitude) ==
    LET w == IF is_latitude THEN 2 ELSE 3
        whole == Abs(value) \div UnitsPerDegree
        part == Abs(value) - whole * UnitsPerDegree
    IN /\ Len(s) = w + 7
       /\ IsDigits(SubSeq(s, 1, w))
       /\ IsDigits(SubSeq(s, w + 1, w + 2))
       /\ s[w + 3] = "."
       /\ IsDigits(SubSeq(s, w + 4, w + 6))
       /\ s[w + 7] = (IF is_latitude THEN (IF value < 0 THEN "S" ELSE "N")
                      ELSE (IF value < 0 THEN "W" ELSE "E"))
       /\ StrToNat(SubSeq(s, 1, w)) = whole
       /\ 2 * Abs(MinutesShown(s, w) * Thousandth - part) <= Thousandth

\* C11: for a latitude in [-90, 90] format_coordinate returns 2 degree
\* digits, 2 minute digits, a point, 3 digits and S for a negative value, N
\* otherwise; for a longitude in [-180, 180] 3 degree digits, the same
\* minutes and W or E; the degrees are the whole part of the absolute value
\* and the minutes its fractional part times 60 rounded to 3 decimals, as in
\* 5107.345N and 00624.765E.
C11_CoordinateFormat ==
    (Done("format_coordinate") /\ InRange(call.arg[1], call.arg[2]))
        => /\ ~outcome.exc
           /\ IsCoordinateOf(outcome.ret, call.arg[1], call.arg[2])
           /\ call.arg = <<0, TRUE>>
                => outcome.ret = <<"0", "0", "0", "0", ".", "0", "0", "0", "N">>
           /\ call.arg = <<0, FALSE>>
                => outcome.ret = <<"0", "0", "0", "0", "0", ".", "0", "0", "0", "E">>
           /\ call.arg = <<ExampleLat, TRUE>>
                => outcome.ret = <<"5", "1", "0", "7", ".", "3", "4", "5", "N">>
           /\ call.arg = <<ExampleLon, FALSE>>
                => outcome.ret = <<"0", "0", "6", "2", "4", ".", "7", "6", "5", "E">>

\* C11's case: the longitude of 6 deg 24.765 min west has been formatted.
C11_Witness ==
    /\ Done("format_coordinate")
    /\ call.arg = <<-ExampleLon, FALSE>>
    /\ outcome = Return(<<"0", "0", "6", "2", "4", ".", "7", "6", "5", "W">>)

\* C16: for a value in range the minutes format_coordinate returns are less
\* than 60: it never returns 60.000 minutes.
C16_MinutesBelowSixty ==
    (Done("format_coordinate") /\ InRange(call.arg[1], call.arg[2]))
        => /\ ~outcome.exc
           /\ MinutesShown(outcome.ret, IF call.arg[2] THEN 2 ELSE 3) < 60 * 1000

\* A text read character by character, with a backslash put before each
\* backslash and each double quote
RECURSIVE Backslashed(_)
Backslashed(s) ==
    IF s = <<>> THEN <<>>
    ELSE (IF Head(s) \in {"\\", "\""} THEN <<"\\", Head(s)>> ELSE <<Head(s)>>)
         \o Backslashed(Tail(s))

\* C12: escape returns the empty string, without quotes, for an empty text
\* and for None; for any other text it returns the text between double
\* quotes with every backslash doubled and every double quote after one
\* more backslash; unescaping the result gives the text back, and no other
\* text has the same result.
C12_EscapeInvertible ==
    Done("escape")
        => /\ ~outcome.exc
           /\ IF call.arg = <<>> \/ call.arg = None
              THEN outcome.ret = <<>>
              ELSE /\ IsQuoted(outcome.ret)
                   /\ outcome.ret = <<"\"">> \o Backslashed(call.arg) \o <<"\"">>
                   /\ Unescape(outcome.ret) = call.arg
                   /\ \A other \in Texts_(MaxText) \ {<<>>, call.arg} :
                          escape(other) # outcome.ret

\* C12's case: a backslash followed by a double quote has been escaped.
C12_Witness ==
    /\ Done("escape")
    /\ call.arg = <<"\\", "\"">>
    /\ outcome = Return(<<"\"", "\\", "\\", "\\", "\"", "\"">>)

\* The index of the first colon of s from its i-th character on, one past
\* the end of s when there is none
RECURSIVE ColonFrom(_, _)
ColonFrom(s, i) ==
    IF i > Len(s) \/ s[i] = ":" THEN i ELSE ColonFrom(s, i + 1)

\* s is HH:MM:SS for the duration of total whole seconds: two-digit minutes
\* and seconds below 60, hours of two digits at least and of no more digits
\* than they need, the three adding up to the duration
IsDurationOf(s, total) ==
    LET c1 == ColonFrom(s, 1)
        c2 == ColonFrom(s, c1 + 1)
        hh == SubSeq(s, 1, c1 - 1)
        mm == SubSeq(s, c1 + 1, c2 - 1)
        ss == SubSeq(s, c2 + 1, Len(s))
    IN /\ c2 < Len(s)
       /\ IsDigits(hh) /\ IsDigits(mm) /\ IsDigits(ss)
       /\ Len(mm) = 2 /\ Len(ss) = 2
       /\ Len(hh) >= 2
       /\ Len(hh) > 2 => hh[1] # "0"
       /\ StrToNat(hh) = total \div 3600
       /\ StrToNat(mm) = (total % 3600) \div 60
       /\ StrToNat(ss) = total % 60
       /\ StrToNat(mm) < 60 /\ StrToNat(ss) < 60
       /\ StrToNat(hh) * 3600 + StrToNat(mm) * 60 + StrToNat(ss) = total

\* C17: format_timedelta returns a duration of T whole seconds, T >= 0, as
\* HH:MM:SS with H = T div 3600, M = (T mod 3600) div 60 and S = T mod 60;
\* the hours have two digits at least and are not wrapped at 24 (25 hours
\* give 25:00:00); a duration given as a str is returned as it is.
C17_Duration ==
    Done("format_timedelta")
        => /\ ~outcome.exc
           /\ IF call.arg.t = "timedelta"
              THEN IsDurationOf(outcome.ret, call.arg.secs)
              ELSE outcome.ret = call.arg.s
           /\ call.arg = PyTimedelta(25 * 3600)
                => outcome.ret = <<"2", "5", ":", "0", "0", ":", "0", "0">>
           /\ call.arg = PyTimedelta(3600 + 45 * 60 + 12)
                => outcome.ret = <<"0", "1", ":", "4", "5", ":", "1", "2">>

\* C17's case: a duration of more than a day has been formatted.
C17_Witness ==
    /\ Done("format_timedelta")
    /\ call.arg = PyTimedelta(25 * 3600 + 59 * 60 + 1)
    /\ outcome = Return(<<"2", "5", ":", "5", "9", ":", "0", "1">>)

\* s without its sign
Unsigned(s) == IF s # <<>> /\ Head(s) = "-" THEN Tail(s) ELSE s

\* s is the integer i in decimal digits, with no decimal point
IsIntegerOf(s, i) ==
    /\ IsDigits(Unsigned(s))
    /\ Len(Unsigned(s)) > 1 => Head(Unsigned(s)) # "0"
    /\ Unsigned(s) # s <=> i < 0
    /\ StrToNat(Unsigned(s)) = Abs(i)

\* s is the float of h hundredths with one decimal place: digits, a point
\* and one digit, the nearest tenth
IsOneDecimalOf(s, h) ==
    LET u == Unsigned(s)
        whole == SubSeq(u, 1, Len(u) - 2)
        tenths == 10 * StrToNat(whole) + StrToNat(<<Last(u)>>)
    IN /\ Len(u) >= 3
       /\ IsDigits(whole)
       /\ u[Len(u) - 1] = "."
       /\ IsDigits(<<Last(u)>>)
       /\ Unsigned(s) # s <=> h < 0
       /\ 2 * Abs(10 * tenths - Abs(h)) <= 10

\* s is the magnitude as format_distance is to show it
IsMagnitudeOf(s, mag) ==
    CASE mag.t = "int" -> IsIntegerOf(s, mag.i)
      [] mag.t = "bool" -> IsIntegerOf(s, IF mag.b THEN 1 ELSE 0)
      [] mag.t = "float" -> IsOneDecimalOf(s, mag.h)
      [] OTHER -> s = mag.s

\* C18: format_distance returns the empty string for None and for the empty
\* str only; a zero is not empty (the int 0 gives 0m).  A bare magnitude
\* gets the unit m and a (magnitude, unit) tuple its own unit; an int is
\* shown without a decimal point, a float with one decimal place, anything
\* else as it is, the unit after it.
C18_Distance ==
    Done("format_distance")
        => LET distance == call.arg
               tuple == distance.t = "tuple"
               unit == IF tuple THEN distance.unit ELSE <<"m">>
               mag == IF tuple THEN distance.mag ELSE distance
               s == outcome.ret
           IN /\ ~outcome.exc
              /\ s = <<>> <=> distance \in {PyNone, PyStr(<<>>)}
              /\ distance = PyInt(0) => s = <<"0", "m">>
              /\ distance = PyFloat(0) => s = <<"0", ".", "0", "m">>
              /\ s # <<>>
                   => /\ Len(s) >= Len(unit)
                      /\ SubSeq(s, Len(s) - Len(unit) + 1, Len(s)) = unit
                      /\ IsMagnitudeOf(SubSeq(s, 1, Len(s) - Len(unit)), mag)

\* C18's case: the int 0 has been formatted.
C18_Witness ==
    /\ Done("format_distance")
    /\ call.arg = PyInt(0)
    /\ outcome = Return(<<"0", "m">>)

----------------------------------------------------------------------------
(* The properties of the writer's state *)

\* C13: in_task_section starts false and never goes back from true to
\* false, whatever is called and however the call ends; it changes in
\* write_task calls only, never in write_waypoint or write_task_options.
C13_Step ==
    /\ in_task_section => in_task_section'
    /\ in_task_section' # in_task_section => call'.op = "write_task"
    /\ call'.op \in {"write_waypoint", "write_task_options"}
         => in_task_section' = in_task_section

C13_PhaseMonotone == ~in_task_section /\ [][C13_Step]_vars

\* C13's case: in the task section an options line has been written after a
\* task, and the writer is in the task section still.
C13_Witness ==
    /\ call.op = "write_task_options"
    /\ outcome = ReturnNone
    /\ in_task_section
    /\ Len(fp) >= 2 /\ IsTaskLine(fp[Len(fp) - 1]) /\ fp[Len(fp) - 1] # <<>>
    /\ IsOptionsLine(Last(fp))

\* The names of the waypoint lines of a file
WaypointNames(f) ==
    {Texts(f[i])[1] : i \in {j \in 2..Len(f) : IsWaypointLine(f[j])}}

InBounds(a) == ~LatitudeOut(a) /\ ~LongitudeOut(a)

\* C14: wps starts empty and only grows; a name gets into it by a
\* write_waypoint call with that name that returns and in no other way, so
\* that at any time it holds just the names of such calls, which are the
\* names of the waypoint lines of the file; a call with a name that is
\* declared already returns, adds one more line and leaves wps as it was.
C14_Step ==
    /\ wps \subseteq wps'
    /\ wps' # wps => (call'.op = "write_waypoint" /\ outcome' = ReturnNone)
    /\ (call'.op = "write_waypoint" /\ outcome' = ReturnNone)
         => wps' = wps \cup {call'.a.name}
    /\ (call'.op = "write_waypoint" /\ call'.a.name \in wps
            /\ ~in_task_section /\ InBounds(call'.a))
         => /\ outcome' = ReturnNone
            /\ fp' = fp \o <<Last(fp')>>
            /\ IsWaypointLine(Last(fp'))
            /\ Texts(Last(fp'))[1] = call'.a.name
            /\ wps' = wps

C14_Declared == wps = {} /\ [](wps = WaypointNames(fp)) /\ [][C14_Step]_vars

\* C14's case: the same name has been written twice, with other
\* coordinates, and is declared once.
C14_Witness ==
    /\ call.op = "write_waypoint"
    /\ outcome = ReturnNone
    /\ Len(fp) = 3
    /\ fp[2] # fp[3]
    /\ Texts(fp[2])[1] = NameA /\ Texts(fp[3])[1] = NameA
    /\ wps = {NameA}

\* C15: write_task and write_task_options leave wps as it was, whether they
\* return or raise; a write_task call made after one that raised returns,
\* and writes its line, when all its names are declared.
C15_Step ==
    /\ call'.op \in {"write_task", "write_task_options"} => wps' = wps
    /\ (call.op = "write_task" /\ outcome = NotFound /\ call'.op = "write_task"
            /\ \A i \in DOMAIN call'.waypoints : call'.waypoints[i] \in wps)
         => /\ outcome' = ReturnNone
            /\ fp' = fp \o <<Last(fp')>>
            /\ IsTaskLineOf(Last(fp'), call'.description, call'.waypoints)

C15_TasksKeepDeclared == [][C15_Step]_vars

\* C15's case: a write_task call naming a declared and an undeclared
\* waypoint has raised, and the declared one is declared still.
C15_Witness ==
    /\ call.op = "write_task"
    /\ call.waypoints = <<NameB, NameA>>
    /\ outcome = NotFound
    /\ wps = {NameA}
    /\ WaypointNames(fp) = {NameA}

=============================================================================
